---------------------------- MODULE Spec2Model ----------------------------
(***************************************************************************)
(* Model of the two utilities of the repository.                           *)
(*                                                                         *)
(* Pipeline A (src/Vantage_API.py): the Airflow DAG stock_data_pipeline    *)
(* with its three tasks fetch_stock_data, insert_to_snowflake and          *)
(* query_snowflake, the Snowflake table stock_prices they share, and the   *)
(* scheduler that starts, retries and re-runs them.                        *)
(*                                                                         *)
(* Pipeline B (src/hw9/process_listing_csv_2_jsonl.py): the statements of  *)
(* process_listings_csv, one action per statement.                         *)
(*                                                                         *)
(* Time is counted in ticks, TicksPerDay ticks to a day; tick 0 of a day   *)
(* is midnight.  A calendar day is a day number; a timestamp is a tick     *)
(* number.  The price columns (open, high, low, close, volume) are carried *)
(* through every stage unchanged and read by no condition of the code;     *)
(* a record is modelled by its key columns (date, symbol).                 *)
(*                                                                         *)
(* The warehouse is Snowflake, reached through SnowflakeHook: DDL commits  *)
(* at once, an INSERT is visible to other sessions at once when the        *)
(* session's AUTOCOMMIT is on (the default) and at conn.commit() when it   *)
(* is off, and closing a connection rolls back what it did not commit.     *)
(* Every call on the hook, the connection or the cursor may raise.  A DAG  *)
(* run starts when the tasks of the run before it have all finished.       *)
(***************************************************************************)
EXTENDS Integers, Sequences, FiniteSets, TLC

VARIABLES
    \* ---- Pipeline A: environment
    now,              \* wall clock, in ticks
    run,              \* number of the current DAG run
    autocommit,       \* the Snowflake session parameter AUTOCOMMIT
    table,            \* stock_prices as other sessions see it
    replaced,         \* history: how many rows the last CREATE OR REPLACE dropped
    \* ---- fetch_stock_data
    fpc, ftries, data, time_series, today, xcom,
    \* ---- insert_to_snowflake
    lpc, ltries, df, li, lconn, lcur, lexc, pending,
    \* ---- query_snowflake
    qpc, qtries, qconn, qcur, qexc, qrows,
    \* ---- Pipeline B: process_listings_csv
    bpc, csv, listings, out, log

varsEnv == <<now, run, autocommit, table, replaced>>
varsF   == <<fpc, ftries, data, time_series, today, xcom>>
varsL   == <<lpc, ltries, df, li, lconn, lcur, lexc, pending>>
varsQ   == <<qpc, qtries, qconn, qcur, qexc, qrows>>
varsB   == <<bpc, csv, listings, out, log>>
vars    == <<varsEnv, varsF, varsL, varsQ, varsB>>

---------------------------------------------------------------------------
(* Bounds of the model *)

TicksPerDay == 2      \* clock resolution
MaxDay      == 2      \* the API answers with days 0..MaxDay
MaxRuns     == 2      \* DAG runs modelled
MaxRows     == 2      \* rows of a directly supplied stock_data / of a CSV file
MaxId       == 2      \* listing ids 1..MaxId

(* Program constants *)

WindowDays == 90      \* pd.Timedelta(days=90), timedelta(days=90)
Retries    == 1       \* default_args['retries']

symbol == "AAPL"

---------------------------------------------------------------------------
(* Dates and conversions *)

\* The days an API answer may carry.
Days == 0..MaxDay

\* The first run is scheduled at midnight of this day, so that the window
\* boundary of the runs falls inside Days.
StartDay == WindowDays + 1

\* pd.to_datetime of a "YYYY-MM-DD" key: midnight of that day.
ToDatetime(day) == day * TicksPerDay

\* astype(str) of a midnight timestamp / strftime('%Y-%m-%d'): the day the
\* timestamp lies in, the time of day dropped.
DateStr(ts) == ts \div TicksPerDay

\* pd.Timestamp.today() - pd.Timedelta(days=90), datetime.now() - timedelta(days=90)
NinetyDaysBefore(ts) == ts - WindowDays * TicksPerDay

\* df['date'] >= ninety_days_ago; InWindowStrict is the comparison written
\* with > instead, which loses the boundary day.
InWindowStrict(ts, bound) == ts > bound
InWindow(ts, bound) == ts >= bound

Row(day) == [date |-> day, symbol |-> symbol]

RECURSIVE SetToSeq(_)
\* The rows of a mapping in the order of its keys, newest day first.
SetToSeq(S) ==
    IF S = {} THEN <<>>
    ELSE LET m == CHOOSE x \in S : \A y \in S : y <= x
         IN  <<m>> \o SetToSeq(S \ {m})

Range(s) == {s[i] : i \in 1..Len(s)}

---------------------------------------------------------------------------
(* The warehouse *)

Absent == [exists |-> FALSE, rows |-> <<>>]

\* CREATE OR REPLACE TABLE stock_prices (...): whatever was there is dropped.
\* CreateIfNotExists is CREATE TABLE IF NOT EXISTS, which keeps an existing
\* table with its rows.
CreateIfNotExists(t) == IF t.exists THEN t ELSE [exists |-> TRUE, rows |-> <<>>]
CreateOrReplaceTable(t) == [exists |-> TRUE, rows |-> <<>>]

\* The table is a standard Snowflake table: its PRIMARY KEY (date, symbol) is
\* recorded but not enforced, an INSERT of an existing key is accepted.
PrimaryKeyEnforced == FALSE

HasKey(rows, r) ==
    \E i \in 1..Len(rows) : rows[i].date = r.date /\ rows[i].symbol = r.symbol

InsertAccepted(rows, r) == ~PrimaryKeyEnforced \/ ~HasKey(rows, r)

\* SELECT * FROM stock_prices WHERE date >= '<bound>'
SelectSince(rows, bound) == SelectSeq(rows, LAMBDA r : r.date >= bound)

---------------------------------------------------------------------------
(* The scheduler: the DAG's dependencies, retries and runs *)

\* The upstream tasks of each task, as the calls at the end of the DAG body
\* wire them: only the XComArg passed to insert_to_snowflake makes an edge.
Upstream ==
    [fetch_stock_data    |-> {},
     insert_to_snowflake |-> {"fetch_stock_data"},
     query_snowflake     |-> {}]

PcOf(t) ==
    CASE t = "fetch_stock_data"    -> fpc
      [] t = "insert_to_snowflake" -> lpc
      [] t = "query_snowflake"     -> qpc

TriesOf(t) ==
    CASE t = "fetch_stock_data"    -> ftries
      [] t = "insert_to_snowflake" -> ltries
      [] t = "query_snowflake"     -> qtries

Succeeded(t)   == PcOf(t) = "done"
FinalFailed(t) == PcOf(t) = "failed" /\ TriesOf(t) > Retries
CanRetry(t)    == PcOf(t) = "failed" /\ TriesOf(t) <= Retries
Running(t)     == PcOf(t) \notin {"idle", "done", "failed"}

\* A task is started once every upstream task has succeeded.
CanStart(t) == PcOf(t) = "idle" /\ \A u \in Upstream[t] : Succeeded(u)

RECURSIVE UpstreamFailed(_)
UpstreamFailed(t) ==
    \E u \in Upstream[t] : FinalFailed(u) \/ UpstreamFailed(u)

Finished(t) == Succeeded(t) \/ FinalFailed(t) \/ UpstreamFailed(t)

Tasks == DOMAIN Upstream

---------------------------------------------------------------------------
(* fetch_stock_data *)

\* What requests.get / response.json() can give.
Responses ==
    {[kind |-> "no_key", series |-> {}]}
      \cup {[kind |-> "series", series |-> S] : S \in SUBSET Days}

NoData == [kind |-> "none", series |-> {}]

\* data.get('Time Series (Daily)', {}); GetTimeSeriesStrict is the lookup
\* data['Time Series (Daily)'], which raises when the key is absent.
GetTimeSeriesStrict(d) ==
    IF d.kind = "series" THEN [ok |-> TRUE, value |-> d.series]
    ELSE [ok |-> FALSE, value |-> {}]
GetTimeSeries(d) ==
    IF d.kind = "series" THEN [ok |-> TRUE, value |-> d.series]
    ELSE [ok |-> TRUE, value |-> {}]

\* The frame built from the mapping, filtered and with its dates as strings.
LastNinetyDays(series, bound) ==
    LET kept == {d \in series : InWindow(ToDatetime(d), bound)}
        asTs == SetToSeq({ToDatetime(d) : d \in kept})
    IN  [i \in 1..Len(asTs) |-> Row(DateStr(asTs[i]))]

\* DataFrame.to_dict(): one mapping per column, from row index to value.
ToDict(rows) ==
    [date   |-> [i \in 1..Len(rows) |-> rows[i].date],
     symbol |-> [i \in 1..Len(rows) |-> rows[i].symbol]]

EmptyDict == ToDict(<<>>)

\* The boundary the last completed fetch filtered with.
ninety_days_ago == NinetyDaysBefore(today)

FetchStart ==
    /\ CanStart("fetch_stock_data")
    /\ fpc' = "request"
    /\ ftries' = ftries + 1
    /\ data' = NoData /\ time_series' = {} /\ xcom' = EmptyDict
    /\ UNCHANGED <<today, varsEnv, varsL, varsQ, varsB>>

\* requests.get(url) raises
FetchRequestError ==
    /\ fpc = "request"
    /\ fpc' = "failed"
    /\ data' = [kind |-> "request_error", series |-> {}]
    /\ UNCHANGED <<ftries, time_series, today, xcom,
                   varsEnv, varsL, varsQ, varsB>>

\* response.json() raises: the body is not JSON
FetchJsonError ==
    /\ fpc = "request"
    /\ fpc' = "failed"
    /\ data' = [kind |-> "malformed", series |-> {}]
    /\ UNCHANGED <<ftries, time_series, today, xcom,
                   varsEnv, varsL, varsQ, varsB>>

\* the body is a JSON object: the rest of the function
FetchReturn ==
    /\ fpc = "request"
    /\ \E d \in Responses :
         LET ts == GetTimeSeries(d)
         IN  /\ data' = d
             /\ IF ts.ok
                  THEN /\ time_series' = ts.value
                       /\ today' = now
                       /\ xcom' = ToDict(LastNinetyDays(ts.value,
                                                        NinetyDaysBefore(now)))
                       /\ fpc' = "done"
                  ELSE /\ fpc' = "failed"
                       /\ UNCHANGED <<time_series, today, xcom>>
    /\ UNCHANGED <<ftries, varsEnv, varsL, varsQ, varsB>>

FetchRetry ==
    /\ CanRetry("fetch_stock_data")
    /\ fpc' = "idle"
    /\ UNCHANGED <<ftries, data, time_series, today, xcom,
                   varsEnv, varsL, varsQ, varsB>>

---------------------------------------------------------------------------
(* insert_to_snowflake *)

\* pd.DataFrame.from_dict(stock_data): the rows of a column mapping.
FromDict(d) ==
    [i \in 1..Len(d.date) |-> [date |-> d.date[i], symbol |-> d.symbol[i]]]

\* The statements of the try block.
LoadBody == {"use_db", "use_schema", "create", "insert", "commit"}

\* df = from_dict(stock_data); conn = hook.get_conn()
LoadGetConn ==
    /\ CanStart("insert_to_snowflake")
    /\ ltries' = ltries + 1
    /\ df' = FromDict(xcom)
    /\ li' = 0 /\ lexc' = FALSE /\ pending' = <<>>
    /\ lconn' = "open" /\ lcur' = "none"
    /\ lpc' = "cursor"
    /\ UNCHANGED <<varsEnv, varsF, varsQ, varsB>>

\* hook.get_conn() raises: nothing was acquired
LoadGetConnFails ==
    /\ CanStart("insert_to_snowflake")
    /\ ltries' = ltries + 1
    /\ df' = FromDict(xcom)
    /\ li' = 0 /\ lexc' = FALSE /\ pending' = <<>>
    /\ lconn' = "none" /\ lcur' = "none"
    /\ lpc' = "failed"
    /\ UNCHANGED <<varsEnv, varsF, varsQ, varsB>>

\* cursor = conn.cursor()
LoadCursor ==
    /\ lpc = "cursor"
    /\ lcur' = "open"
    /\ lpc' = "use_db"
    /\ UNCHANGED <<ltries, df, li, lconn, lexc, pending,
                   varsEnv, varsF, varsQ, varsB>>

\* conn.cursor() raises: the statement is before the try, the function is left
LoadCursorFails ==
    /\ lpc = "cursor"
    /\ lpc' = "failed"
    /\ UNCHANGED <<ltries, df, li, lconn, lcur, lexc, pending,
                   varsEnv, varsF, varsQ, varsB>>

LoadUseDatabase ==
    /\ lpc = "use_db"
    /\ lpc' = "use_schema"
    /\ UNCHANGED <<ltries, df, li, lconn, lcur, lexc, pending,
                   varsEnv, varsF, varsQ, varsB>>

LoadUseSchema ==
    /\ lpc = "use_schema"
    /\ lpc' = "create"
    /\ UNCHANGED <<ltries, df, li, lconn, lcur, lexc, pending,
                   varsEnv, varsF, varsQ, varsB>>

\* cursor.execute(create_table_query): DDL, committed at once
LoadCreateTable ==
    /\ lpc = "create"
    /\ replaced' = Len(table.rows)
    /\ table' = CreateOrReplaceTable(table)
    /\ lpc' = "insert"
    /\ UNCHANGED <<ltries, df, li, lconn, lcur, lexc, pending,
                   now, run, autocommit, varsF, varsQ, varsB>>

\* one turn of the loop over df.iterrows()
LoadInsert ==
    /\ lpc = "insert"
    /\ li < Len(df)
    /\ table.exists
    /\ InsertAccepted(table.rows \o pending, df[li + 1])
    /\ IF autocommit
         THEN /\ table' = [table EXCEPT !.rows = Append(@, df[li + 1])]
              /\ UNCHANGED pending
         ELSE /\ pending' = Append(pending, df[li + 1])
              /\ UNCHANGED table
    /\ li' = li + 1
    /\ UNCHANGED <<lpc, ltries, df, lconn, lcur, lexc,
                   now, run, autocommit, replaced, varsF, varsQ, varsB>>

\* the loop is over
LoadInsertDone ==
    /\ lpc = "insert"
    /\ li = Len(df)
    /\ lpc' = "commit"
    /\ UNCHANGED <<ltries, df, li, lconn, lcur, lexc, pending,
                   varsEnv, varsF, varsQ, varsB>>

\* conn.commit()
LoadCommit ==
    /\ lpc = "commit"
    /\ table' = [table EXCEPT !.rows = @ \o pending]
    /\ pending' = <<>>
    /\ lpc' = "close_cursor"
    /\ UNCHANGED <<ltries, df, li, lconn, lcur, lexc,
                   now, run, autocommit, replaced, varsF, varsQ, varsB>>

\* a statement of the try block raises: control goes to the finally block
LoadBodyRaises ==
    /\ lpc \in LoadBody
    /\ lexc' = TRUE
    /\ lpc' = "close_cursor"
    /\ UNCHANGED <<ltries, df, li, lconn, lcur, pending,
                   varsEnv, varsF, varsQ, varsB>>

\* finally: cursor.close()
LoadCloseCursor ==
    /\ lpc = "close_cursor"
    /\ lcur' = "closed"
    /\ lpc' = "close_conn"
    /\ UNCHANGED <<ltries, df, li, lconn, lexc, pending,
                   varsEnv, varsF, varsQ, varsB>>

\* cursor.close() raises: conn.close() is not reached; the open transaction
\* of the abandoned session is never committed
LoadCloseCursorFails ==
    /\ lpc = "close_cursor"
    /\ lexc' = TRUE
    /\ pending' = <<>>
    /\ lpc' = "failed"
    /\ UNCHANGED <<ltries, df, li, lconn, lcur,
                   varsEnv, varsF, varsQ, varsB>>

\* finally: conn.close(), which rolls back what was not committed; the
\* function returns, or the pending exception (or one of close) propagates
LoadCloseConn ==
    /\ lpc = "close_conn"
    /\ lconn' = "closed"
    /\ pending' = <<>>
    /\ \E raised \in BOOLEAN :
         /\ lexc' = (lexc \/ raised)
         /\ lpc' = IF lexc \/ raised THEN "failed" ELSE "done"
    /\ UNCHANGED <<ltries, df, li, lcur, varsEnv, varsF, varsQ, varsB>>

LoadRetry ==
    /\ CanRetry("insert_to_snowflake")
    /\ lpc' = "idle"
    /\ lconn' = "none" /\ lcur' = "none"
    /\ UNCHANGED <<ltries, df, li, lexc, pending,
                   varsEnv, varsF, varsQ, varsB>>

---------------------------------------------------------------------------
(* query_snowflake *)

\* conn = hook.get_conn()
QueryGetConn ==
    /\ CanStart("query_snowflake")
    /\ qtries' = qtries + 1
    /\ qexc' = FALSE /\ qrows' = <<>>
    /\ qconn' = "open" /\ qcur' = "none"
    /\ qpc' = "cursor"
    /\ UNCHANGED <<varsEnv, varsF, varsL, varsB>>

\* hook.get_conn() raises: nothing was acquired
QueryGetConnFails ==
    /\ CanStart("query_snowflake")
    /\ qtries' = qtries + 1
    /\ qexc' = FALSE /\ qrows' = <<>>
    /\ qconn' = "none" /\ qcur' = "none"
    /\ qpc' = "failed"
    /\ UNCHANGED <<varsEnv, varsF, varsL, varsB>>

\* cursor = conn.cursor()
QueryCursor ==
    /\ qpc = "cursor"
    /\ qcur' = "open"
    /\ qpc' = "query"
    /\ UNCHANGED <<qtries, qconn, qexc, qrows, varsEnv, varsF, varsL, varsB>>

\* conn.cursor() raises: the statement is before the try, the function is left
QueryCursorFails ==
    /\ qpc = "cursor"
    /\ qpc' = "failed"
    /\ UNCHANGED <<qtries, qconn, qcur, qexc, qrows,
                   varsEnv, varsF, varsL, varsB>>

\* the try block: the boundary from the clock, the SELECT, the print
QueryExecute ==
    /\ qpc = "query"
    /\ table.exists
    /\ qrows' = SelectSince(table.rows,
                            DateStr(NinetyDaysBefore(now)))
    /\ qpc' = "close_cursor"
    /\ UNCHANGED <<qtries, qconn, qcur, qexc, varsEnv, varsF, varsL, varsB>>

\* the try block raises (the table does not exist, the session is lost)
QueryBodyRaises ==
    /\ qpc = "query"
    /\ qexc' = TRUE
    /\ qpc' = "close_cursor"
    /\ UNCHANGED <<qtries, qconn, qcur, qrows, varsEnv, varsF, varsL, varsB>>

\* finally: cursor.close()
QueryCloseCursor ==
    /\ qpc = "close_cursor"
    /\ qcur' = "closed"
    /\ qpc' = "close_conn"
    /\ UNCHANGED <<qtries, qconn, qexc, qrows, varsEnv, varsF, varsL, varsB>>

\* cursor.close() raises: conn.close() is not reached
QueryCloseCursorFails ==
    /\ qpc = "close_cursor"
    /\ qexc' = TRUE
    /\ qpc' = "failed"
    /\ UNCHANGED <<qtries, qconn, qcur, qrows, varsEnv, varsF, varsL, varsB>>

\* finally: conn.close()
QueryCloseConn ==
    /\ qpc = "close_conn"
    /\ qconn' = "closed"
    /\ \E raised \in BOOLEAN :
         /\ qexc' = (qexc \/ raised)
         /\ qpc' = IF qexc \/ raised THEN "failed" ELSE "done"
    /\ UNCHANGED <<qtries, qcur, qrows, varsEnv, varsF, varsL, varsB>>

QueryRetry ==
    /\ CanRetry("query_snowflake")
    /\ qpc' = "idle"
    /\ qconn' = "none" /\ qcur' = "none"
    /\ UNCHANGED <<qtries, qexc, qrows, varsEnv, varsF, varsL, varsB>>

---------------------------------------------------------------------------
(* The clock and the daily schedule *)

\* time passes within the day of the run
Tick ==
    /\ DateStr(now + 1) = DateStr(now)
    /\ now' = now + 1
    /\ UNCHANGED <<run, autocommit, table, replaced,
                   varsF, varsL, varsQ, varsB>>

IdleF == /\ fpc = "idle" /\ ftries = 0 /\ data = NoData /\ time_series = {}
         /\ today = 0 /\ xcom = EmptyDict
IdleL == /\ lpc = "idle" /\ ltries = 0 /\ df = <<>> /\ li = 0
         /\ lconn = "none" /\ lcur = "none" /\ lexc = FALSE /\ pending = <<>>
IdleQ == /\ qpc = "idle" /\ qtries = 0 /\ qconn = "none" /\ qcur = "none"
         /\ qexc = FALSE /\ qrows = <<>>
IdleB == /\ bpc = "off" /\ csv = <<>> /\ listings = <<>> /\ out = <<>>
         /\ log = <<>>

\* schedule_interval='@daily': the next run is created at the next midnight,
\* with fresh task instances; the table is what the last run left
NewRun ==
    /\ \A t \in Tasks : Finished(t)
    /\ run < MaxRuns
    /\ run' = run + 1
    /\ now' = ToDatetime(DateStr(now) + 1)
    /\ fpc' = "idle" /\ ftries' = 0 /\ data' = NoData /\ time_series' = {}
    /\ today' = 0 /\ xcom' = EmptyDict
    /\ lpc' = "idle" /\ ltries' = 0 /\ df' = <<>> /\ li' = 0
    /\ lconn' = "none" /\ lcur' = "none" /\ lexc' = FALSE /\ pending' = <<>>
    /\ qpc' = "idle" /\ qtries' = 0 /\ qconn' = "none" /\ qcur' = "none"
    /\ qexc' = FALSE /\ qrows' = <<>>
    /\ UNCHANGED <<autocommit, table, replaced, varsB>>

---------------------------------------------------------------------------
(* Pipeline A as the scheduler runs it *)

Init ==
    /\ now = ToDatetime(StartDay)
    /\ run = 1
    /\ autocommit \in BOOLEAN
    /\ table = Absent
    /\ replaced = 0
    /\ IdleF /\ IdleL /\ IdleQ /\ IdleB

Next ==
    \/ FetchStart \/ FetchRequestError \/ FetchJsonError \/ FetchReturn
    \/ FetchRetry
    \/ LoadGetConn \/ LoadGetConnFails \/ LoadCursor \/ LoadCursorFails
    \/ LoadUseDatabase \/ LoadUseSchema \/ LoadCreateTable
    \/ LoadInsert \/ LoadInsertDone \/ LoadCommit \/ LoadBodyRaises
    \/ LoadCloseCursor \/ LoadCloseCursorFails \/ LoadCloseConn \/ LoadRetry
    \/ QueryGetConn \/ QueryGetConnFails \/ QueryCursor \/ QueryCursorFails
    \/ QueryExecute \/ QueryBodyRaises
    \/ QueryCloseCursor \/ QueryCloseCursorFails \/ QueryCloseConn
    \/ QueryRetry
    \/ Tick \/ NewRun

Spec == Init /\ [][Next]_vars

---------------------------------------------------------------------------
(* fetch_stock_data alone, under the clock and its retry *)

NextFetch ==
    \/ FetchStart \/ FetchRequestError \/ FetchJsonError \/ FetchReturn
    \/ FetchRetry \/ Tick

SpecFetch == Init /\ [][NextFetch]_vars

---------------------------------------------------------------------------
(* insert_to_snowflake alone, called again and again with any stock_data *)

\* The column mappings of at most MaxRows records.
StockData ==
    UNION {{[date   |-> dates,
             symbol |-> [i \in 1..n |-> symbol]] : dates \in [1..n -> Days]}
           : n \in 0..MaxRows}

\* def insert_to_snowflake(stock_data): the task is handed its argument
LoaderInvoke ==
    /\ lpc \in {"done", "failed"}
    /\ xcom' \in StockData
    /\ lpc' = "idle" /\ ltries' = 0 /\ df' = <<>> /\ li' = 0
    /\ lconn' = "none" /\ lcur' = "none" /\ lexc' = FALSE /\ pending' = <<>>
    /\ UNCHANGED <<fpc, ftries, data, time_series, today,
                   varsEnv, varsQ, varsB>>

InitLoader ==
    /\ now = ToDatetime(StartDay)
    /\ run = 1
    /\ autocommit \in BOOLEAN
    /\ table = Absent
    /\ replaced = 0
    /\ fpc = "done" /\ ftries = 1 /\ data = NoData /\ time_series = {}
    /\ today = now /\ xcom \in StockData
    /\ IdleL /\ IdleQ /\ IdleB

NextLoader ==
    \/ LoadGetConn \/ LoadGetConnFails \/ LoadCursor \/ LoadCursorFails
    \/ LoadUseDatabase \/ LoadUseSchema \/ LoadCreateTable
    \/ LoadInsert \/ LoadInsertDone \/ LoadCommit \/ LoadBodyRaises
    \/ LoadCloseCursor \/ LoadCloseCursorFails \/ LoadCloseConn
    \/ LoaderInvoke

SpecLoader == InitLoader /\ [][NextLoader]_vars

---------------------------------------------------------------------------
(* Pipeline B: process_listings_csv *)

\* A cell pd.read_csv reads as a missing value (two of its default markers).
NaValues == {"", "NA"}
Missing(cell) == cell \in NaValues

\* The missing value of a frame, and null of a JSON text.
NaN      == "<NaN>"
JsonNull == "<null>"

Ids          == 1..MaxId
Urls         == {"", "NA", "http://x"}
Descriptions == {"", "nice place"}

\* The rows of a listings file: the three required columns and one more.
CsvRows ==
    [id : Ids, name : {"flat"}, listing_url : Urls, description : Descriptions]

CsvFiles == UNION {[1..n -> CsvRows] : n \in 0..MaxRows}

\* pd.read_csv: the id as a number, a text cell as itself or as missing.
ParseCell(column, cell) ==
    IF column = "id" THEN cell
    ELSE IF Missing(cell) THEN NaN ELSE cell

\* Series.fillna('') on one value; KeepNa leaves the value as it is, as if
\* the fillna were not there.
KeepNa(v) == v
FillNa(v) == IF v = NaN THEN "" ELSE v

\* combine_features(row): the description, or "" and a printed line when
\* reading it raises.
combine_features(row) ==
    IF "description" \in DOMAIN row
      THEN [value |-> row.description, printed |-> FALSE]
      ELSE [value |-> "", printed |-> TRUE]

\* listings[['id', 'listing_url', 'text']] and the rename;
\* SelectRenameSwapped takes title and text from each other's column.
SelectRenameSwapped(row) ==
    [doc_id |-> row.id, title |-> row.text, text |-> row.listing_url]
SelectRename(row) ==
    [doc_id |-> row.id, title |-> row.listing_url, text |-> row.text]

\* row.to_dict()
RowToDict(row) == [c \in DOMAIN row |-> row[c]]

\* f"id:hybrid-search:doc::{x}"
PutOf(x) == "id:hybrid-search:doc::" \o ToString(x)

\* to_json of one value of a text column: a missing value is written null.
JsonText(v) == IF v = NaN THEN JsonNull ELSE v

\* One line of to_json(orient='records', lines=True), as the object it holds.
JsonLine(row) ==
    [put    |-> row.put,
     fields |-> [c \in DOMAIN row.fields |->
                    IF c = "doc_id" THEN row.fields[c]
                    ELSE JsonText(row.fields[c])]]

\* listings = pd.read_csv(input_file)
ReadCsv ==
    /\ bpc = "read"
    /\ listings' = [i \in 1..Len(csv) |->
                       [c \in DOMAIN csv[i] |-> ParseCell(c, csv[i][c])]]
    /\ bpc' = "fillna"
    /\ UNCHANGED <<csv, out, log, varsEnv, varsF, varsL, varsQ>>

\* the two fillna('') assignments
FillMissing ==
    /\ bpc = "fillna"
    /\ listings' = [i \in 1..Len(listings) |->
                       [listings[i] EXCEPT !.listing_url = FillNa(@),
                                           !.description = FillNa(@)]]
    /\ bpc' = "text"
    /\ UNCHANGED <<csv, out, log, varsEnv, varsF, varsL, varsQ>>

\* listings["text"] = listings.apply(combine_features, axis=1)
ApplyCombineFeatures ==
    /\ bpc = "text"
    /\ listings' = [i \in 1..Len(listings) |->
                       [c \in DOMAIN listings[i] \cup {"text"} |->
                           IF c = "text"
                             THEN combine_features(listings[i]).value
                             ELSE listings[i][c]]]
    /\ log' = log \o SelectSeq([i \in 1..Len(listings) |-> i],
                               LAMBDA i : combine_features(listings[i]).printed)
    /\ bpc' = "select"
    /\ UNCHANGED <<csv, out, varsEnv, varsF, varsL, varsQ>>

\* the projection and the rename
SelectAndRename ==
    /\ bpc = "select"
    /\ listings' = [i \in 1..Len(listings) |-> SelectRename(listings[i])]
    /\ bpc' = "fields"
    /\ UNCHANGED <<csv, out, log, varsEnv, varsF, varsL, varsQ>>

\* listings['fields'] = listings.apply(lambda row: row.to_dict(), axis=1)
BuildFields ==
    /\ bpc = "fields"
    /\ listings' = [i \in 1..Len(listings) |->
                       [c \in DOMAIN listings[i] \cup {"fields"} |->
                           IF c = "fields" THEN RowToDict(listings[i])
                           ELSE listings[i][c]]]
    /\ bpc' = "put"
    /\ UNCHANGED <<csv, out, log, varsEnv, varsF, varsL, varsQ>>

\* listings['put'] = listings['doc_id'].apply(...)
BuildPut ==
    /\ bpc = "put"
    /\ listings' = [i \in 1..Len(listings) |->
                       [c \in DOMAIN listings[i] \cup {"put"} |->
                           IF c = "put" THEN PutOf(listings[i].doc_id)
                           ELSE listings[i][c]]]
    /\ bpc' = "write"
    /\ UNCHANGED <<csv, out, log, varsEnv, varsF, varsL, varsQ>>

\* df_result = listings[['put', 'fields']]; df_result.to_json(...)
WriteJsonl ==
    /\ bpc = "write"
    /\ out' = [i \in 1..Len(listings) |->
                  JsonLine([put    |-> listings[i].put,
                            fields |-> listings[i].fields])]
    /\ bpc' = "done"
    /\ UNCHANGED <<csv, listings, log, varsEnv, varsF, varsL, varsQ>>

InitB ==
    /\ now = ToDatetime(StartDay)
    /\ run = 1
    /\ autocommit = TRUE
    /\ table = Absent
    /\ replaced = 0
    /\ IdleF /\ IdleL /\ IdleQ
    /\ bpc = "read" /\ csv \in CsvFiles
    /\ listings = <<>> /\ out = <<>> /\ log = <<>>

NextB ==
    \/ ReadCsv \/ FillMissing \/ ApplyCombineFeatures \/ SelectAndRename
    \/ BuildFields \/ BuildPut \/ WriteJsonl

SpecB == InitB /\ [][NextB]_vars

---------------------------------------------------------------------------
(* Pipeline A: the claims *)

Ended(pc) == pc \in {"done", "failed"}

FetchedDays == {xcom.date[i] : i \in 1..Len(xcom.date)}

\* C1: the three stages run strictly in the order Fetcher, Loader, Reporter
\* and never two at a time: the Loader is not started before the Fetcher has
\* succeeded, the Reporter is not started before the Loader has succeeded,
\* and at most one task is running.
C1_StagesInOrder ==
    /\ lpc # "idle" => fpc = "done"
    /\ qpc # "idle" => lpc = "done"
    /\ Cardinality({t \in Tasks : Running(t)}) <= 1

\* C2: when fetch_stock_data has returned, its record set holds exactly the
\* days of the response that are at or after (now - 90 days), now being the
\* time the function read: none older, none of those missing.
C2_FetchKeepsExactlyWindow ==
    fpc = "done" =>
        \A d \in Days :
            d \in FetchedDays <=>
                (d \in data.series
                    /\ ToDatetime(d) >= today - WindowDays * TicksPerDay)

\* C2 witness: a fetch returned a response with a day before the boundary
\* (dropped) and a day exactly on the boundary (kept).
C2_Witness ==
    /\ fpc = "done"
    /\ \E d \in data.series : ToDatetime(d) < ninety_days_ago
    /\ \E d \in data.series :
           ToDatetime(d) = ninety_days_ago /\ d \in FetchedDays

\* C3: when insert_to_snowflake has returned normally the table has as many
\* rows as the input has records and no two rows share (date, symbol); so an
\* input with a repeated (date, symbol) never loads normally.
C3_LoadedRowsAreUnique ==
    lpc = "done" =>
        /\ Len(table.rows) = Len(xcom.date)
        /\ \A i, j \in 1..Len(table.rows) :
               (table.rows[i].date = table.rows[j].date
                  /\ table.rows[i].symbol = table.rows[j].symbol) => i = j

\* C4: when a warehouse stage has ended, normally or by an exception raised
\* at any of its steps, no connection and no cursor it acquired is still open.
C4_ResourcesReleased ==
    /\ Ended(lpc) => (lconn # "open" /\ lcur # "open")
    /\ Ended(qpc) => (qconn # "open" /\ qcur # "open")

\* C5: the rows query_snowflake has read are rows that the Loader of the same
\* run persisted, completely, and each is at or after the 90-day boundary the
\* Fetcher of that run filtered with.
C5_ReporterReadsThisRunsLoad ==
    qpc = "done" =>
        \A i \in 1..Len(qrows) :
            /\ lpc = "done"
            /\ qrows[i] \in Range(df)
            /\ ToDatetime(qrows[i].date) >= ninety_days_ago

\* C6: once insert_to_snowflake has returned normally, stock_prices holds
\* exactly the records of its input, in order, and nothing that an earlier
\* run inserted.
C6_TableIsLatestInput ==
    lpc = "done" =>
        /\ table.exists
        /\ Len(table.rows) = Len(xcom.date)
        /\ \A i \in 1..Len(xcom.date) :
               table.rows[i] = [date |-> xcom.date[i], symbol |-> xcom.symbol[i]]

\* C6 witness: a load of an empty record set returned normally after its
\* CREATE OR REPLACE dropped the rows of an earlier load.
C6_Witness ==
    /\ lpc = "done"
    /\ replaced > 0
    /\ Len(xcom.date) = 0
    /\ table.rows = <<>>

\* C10 as stated: whatever the request gives, no error leaves the Fetcher.
C10_FetcherNeverRaises == fpc # "failed"

\* C10 amended: a JSON answer without the "Time Series (Daily)" key makes
\* the Fetcher return normally with an empty record set, while a request
\* error or a body that is not JSON leaves it as an exception.
C10_OnlyMissingKeyIsSwallowed ==
    /\ data.kind = "no_key" => (fpc = "done" /\ xcom = EmptyDict)
    /\ data.kind \in {"request_error", "malformed"} => fpc # "done"

\* C10 witness: the Fetcher returned normally on an answer without the key.
C10_Witness == fpc = "done" /\ data.kind = "no_key" /\ Len(xcom.date) = 0

---------------------------------------------------------------------------
(* Pipeline B: the claims *)

\* C7: the output has one line per input row, in input order; line i is an
\* object with exactly the keys put and fields, put is the prefix followed by
\* the row's id, and fields has exactly doc_id, title and text: the row's id,
\* its listing_url or "" when missing, its description or "" when missing.
C7_OneDocumentPerRow ==
    bpc = "done" =>
        /\ Len(out) = Len(csv)
        /\ \A i \in 1..Len(csv) :
             /\ DOMAIN out[i] = {"put", "fields"}
             /\ out[i].put = "id:hybrid-search:doc::" \o ToString(csv[i].id)
             /\ DOMAIN out[i].fields = {"doc_id", "title", "text"}
             /\ out[i].fields.doc_id = csv[i].id
             /\ out[i].fields.title =
                    (IF Missing(csv[i].listing_url) THEN ""
                     ELSE csv[i].listing_url)
             /\ out[i].fields.text =
                    (IF Missing(csv[i].description) THEN ""
                     ELSE csv[i].description)

\* C7 witness: a file of two rows was written, one row with its listing_url
\* missing and one with a listing_url and a description.
C7_Witness ==
    /\ bpc = "done"
    /\ Len(out) = 2
    /\ Missing(csv[1].listing_url) /\ out[1].fields.title = ""
    /\ ~Missing(csv[2].listing_url) /\ ~Missing(csv[2].description)

\* C8: no two output lines carry the same doc_id, whatever the input.
C8_DocIdsUnique ==
    bpc = "done" =>
        \A i, j \in 1..Len(out) :
            out[i].fields.doc_id = out[j].fields.doc_id => i = j

\* C9 as stated: a row with a missing description gets text "", a log entry
\* that identifies it is printed, and every row of the input is written.
C9_MissingDescriptionLogged ==
    bpc = "done" =>
        /\ Len(out) = Len(csv)
        /\ \A i \in 1..Len(csv) :
             Missing(csv[i].description) =>
                 (out[i].fields.text = "" /\ i \in Range(log))

\* C9 amended: a row with a missing description gets text "" and every row
\* of the input is written, but nothing is printed for that row.
C9_MissingDescriptionSilent ==
    bpc = "done" =>
        /\ Len(out) = Len(csv)
        /\ \A i \in 1..Len(csv) :
             Missing(csv[i].description) =>
                 (out[i].fields.text = "" /\ i \notin Range(log))

\* C9 witness: a row with a missing description was followed by another row,
\* and both were written.
C9_Witness ==
    /\ bpc = "done"
    /\ Len(csv) = 2 /\ Len(out) = 2
    /\ Missing(csv[1].description) /\ out[1].fields.text = ""
    /\ out[2].fields.doc_id = csv[2].id

=============================================================================
